---- MODULE Spec2Model ----
(***************************************************************************)
(* Model of the event bus (src/src/services/events/EventBus.ts), of the    *)
(* engine lifecycle (useThreeEngine, src/src/composables/core/three/       *)
(* README.md), of the camera animation (useThreeCamera.ts), of the         *)
(* controls update loop (useThreeControls.ts) and of the model cache       *)
(* (useModelLoader, src/unnamed/part_002) of ai-visualization-front.       *)
(***************************************************************************)
EXTENDS Integers, Sequences, FiniteSets, TLC

(***************************************************************************)
(* Bounds and input domains                                                *)
(***************************************************************************)
\* total number of on/once registrations in one behaviour
MaxSubs == 3
\* nesting depth of emit calls issued from callbacks
MaxDepth == 2
\* bus calls one callback makes while it runs
MaxCallsInCallback == 1
\* initialize calls on one engine instance that get as far as constructing
\* a scene
MaxInits == 2
\* engine calls one subscriber makes from inside its callback
MaxListenerCalls == 1

\* event names: free-form strings, the empty string included
Events == {"", "a"}
\* callback references
Callbacks == {"f", "g"}
\* options.priority values (0 is the default)
Priorities == {0, 5}
\* an omitted optional argument
Undefined == "undefined"

(***************************************************************************)
(* State                                                                   *)
(***************************************************************************)
VARIABLES
    listeners,   \* EventBus.listeners: Map<string, EventListener[]>
    stack,       \* activation records of the emit calls in progress
    created,     \* the unsubscribe closure of every on call, by listener identity
    engine,      \* the refs and locals of one useThreeEngine instance
    threeCamera, \* the refs and locals of one useThreeCamera instance
    threeControls, \* the refs and locals of one useThreeControls instance
    modelLoader  \* the refs and locals of one useModelLoader instance

busVars == <<listeners, stack, created>>

vars ==
    <<listeners, stack, created, engine, threeCamera, threeControls,
      modelLoader>>

(***************************************************************************)
(* Map and array helpers (JavaScript Map / Array semantics)                *)
(***************************************************************************)
MapSet(m, k, v) == [x \in (DOMAIN m) \cup {k} |-> IF x = k THEN v ELSE m[x]]

MapDelete(m, k) == [x \in (DOMAIN m) \ {k} |-> m[x]]

MapGet(m, k) == IF k \in DOMAIN m THEN m[k] ELSE <<>>

Ids(arr) == {arr[i].id : i \in 1..Len(arr)}

\* a JavaScript truthiness test of an optional string argument
Truthy(s) == s # Undefined /\ s # ""

(***************************************************************************)
(* emit: the sort of the listeners                                         *)
(***************************************************************************)
CompareAscending(a, b) == a.priority - b.priority

\* the comparator handed to toSorted
Compare(a, b) == b.priority - a.priority

RECURSIVE InsertSorted(_, _)
\* stable insertion: x goes behind every element it does not precede
InsertSorted(x, s) ==
    IF s = <<>> THEN <<x>>
    ELSE IF Compare(Head(s), x) <= 0
         THEN <<Head(s)>> \o InsertSorted(x, Tail(s))
         ELSE <<x>> \o s

RECURSIVE ToSorted(_)
\* Array.prototype.toSorted: a stable sort of a copy
ToSorted(arr) ==
    IF arr = <<>> THEN <<>>
    ELSE InsertSorted(arr[Len(arr)], ToSorted(SubSeq(arr, 1, Len(arr) - 1)))

(***************************************************************************)
(* Activation records of emit                                              *)
(***************************************************************************)
\* the array the local eventListeners refers to: the array stored in the
\* map while the map still holds it, else the array as it was when the map
\* entry was replaced or deleted
EventListenersOf(f) == IF f.attached THEN listeners[f.event] ELSE f.snap

\* the map entry of event e is replaced or deleted: the emit calls in
\* progress keep their reference to the old array
Detach(stk, e) ==
    [i \in 1..Len(stk) |->
        IF stk[i].event = e /\ stk[i].attached
        THEN [stk[i] EXCEPT !.attached = FALSE, !.snap = MapGet(listeners, e)]
        ELSE stk[i]]

DetachAll(stk) ==
    [i \in 1..Len(stk) |->
        IF stk[i].attached
        THEN [stk[i] EXCEPT !.attached = FALSE,
                            !.snap = MapGet(listeners, stk[i].event)]
        ELSE stk[i]]

Top == stack[Len(stack)]

\* a forEach over the registry's own array, which a callback's on extends
DispatchedLive(f) == EventListenersOf(f)

\* the array the forEach of emit iterates: the sorted copy
Dispatched(f) == f.sorted

\* a bus method can be called by the program, or by a callback that is running
CanCall ==
    IF stack = <<>> THEN TRUE
    ELSE Top.phase = "running" /\ Top.calls < MaxCallsInCallback

\* the stack once the running callback, if any, has made one more call
Charged(stk) ==
    IF stk = <<>> THEN stk ELSE [stk EXCEPT ![Len(stk)].calls = @ + 1]

(***************************************************************************)
(* getListenerCount, getEventNames                                         *)
(***************************************************************************)
RECURSIVE TotalOf(_, _)
TotalOf(m, keys) ==
    IF keys = {} THEN 0
    ELSE LET k == CHOOSE x \in keys : TRUE
         IN  Len(m[k]) + TotalOf(m, keys \ {k})

GetListenerCountOf(m, event) ==
    IF Truthy(event)
    THEN (IF event \in DOMAIN m THEN Len(m[event]) ELSE 0)
    ELSE TotalOf(m, DOMAIN m)

GetListenerCount(event) == GetListenerCountOf(listeners, event)

GetEventNames == DOMAIN listeners

(***************************************************************************)
(* on / once                                                               *)
(***************************************************************************)
NewListener(callback, once, priority) ==
    [id |-> Len(created) + 1, callback |-> callback,
     once |-> once, priority |-> priority]

OnResult(m, event, l) == MapSet(m, event, Append(MapGet(m, event), l))

On(event, callback, once, priority) ==
    /\ CanCall
    /\ Len(created) < MaxSubs
    /\ LET l == NewListener(callback, once, priority)
       IN  /\ listeners' = OnResult(listeners, event, l)
           /\ created' = Append(created, [event |-> event, callback |-> callback])
    /\ stack' = Charged(stack)
    /\ UNCHANGED <<engine, threeCamera, threeControls, modelLoader>>

Once(event, callback) ==
    /\ CanCall
    /\ Len(created) < MaxSubs
    /\ LET l == NewListener(callback, TRUE, 0)
       IN  /\ listeners' = OnResult(listeners, event, l)
           /\ created' = Append(created, [event |-> event, callback |-> callback])
    /\ stack' = Charged(stack)
    /\ UNCHANGED <<engine, threeCamera, threeControls, modelLoader>>

(***************************************************************************)
(* off, the unsubscribe closure, clear                                     *)
(***************************************************************************)
OffFilterFirstOnly(arr, callback) ==
    LET hits == {i \in 1..Len(arr) : arr[i].callback = callback}
    IN  IF hits = {} THEN arr
        ELSE LET k == CHOOSE i \in hits : \A j \in hits : i <= j
             IN  SubSeq(arr, 1, k - 1) \o SubSeq(arr, k + 1, Len(arr))

\* eventListeners.filter(listener => listener.callback !== callback)
OffFilter(arr, callback) == SelectSeq(arr, LAMBDA l : l.callback # callback)

OffStoreKeepsEmpty(m, event, filtered) == MapSet(m, event, filtered)

\* delete the entry when nothing is left, else store the new array
OffStore(m, event, filtered) ==
    IF Len(filtered) = 0 THEN MapDelete(m, event) ELSE MapSet(m, event, filtered)

OffResult(m, event, callback) ==
    IF event \notin DOMAIN m THEN m
    ELSE IF callback = Undefined THEN MapDelete(m, event)
    ELSE OffStore(m, event, OffFilter(m[event], callback))

OffEffect(event, callback) ==
    /\ listeners' = OffResult(listeners, event, callback)
    /\ stack' = IF event \in DOMAIN listeners
                THEN Detach(Charged(stack), event)
                ELSE Charged(stack)
    /\ UNCHANGED <<created, engine, threeCamera, threeControls, modelLoader>>

Off(event, callback) ==
    /\ CanCall
    /\ OffEffect(event, callback)

\* the function returned by on: () => this.off(event, callback)
Unsubscribe(id) ==
    /\ CanCall
    /\ id \in 1..Len(created)
    /\ OffEffect(created[id].event, created[id].callback)

Clear ==
    /\ CanCall
    /\ listeners' = << >>
    /\ stack' = DetachAll(Charged(stack))
    /\ UNCHANGED <<created, engine, threeCamera, threeControls, modelLoader>>

(***************************************************************************)
(* emit                                                                    *)
(***************************************************************************)
\* emit up to the start of the forEach; an event without listeners returns
EmitBegin(event) ==
    /\ CanCall
    /\ Len(stack) < MaxDepth
    /\ event \in DOMAIN listeners
    /\ Len(listeners[event]) # 0
    /\ stack' = Append(Charged(stack),
                       [event |-> event,
                        sorted |-> ToSorted(listeners[event]),
                        idx |-> 1,
                        toRemove |-> {},
                        attached |-> TRUE,
                        snap |-> <<>>,
                        phase |-> "dispatch",
                        calls |-> 0,
                        present |-> Ids(listeners[event]),
                        fired |-> <<>>])
    /\ UNCHANGED <<listeners, created, engine,
                   threeCamera, threeControls, modelLoader>>

\* forEach calls listener.callback(data)
Invoke ==
    /\ stack # <<>>
    /\ Top.phase = "dispatch"
    /\ Top.idx <= Len(Dispatched(Top))
    /\ LET l == Dispatched(Top)[Top.idx]
       IN  stack' = [stack EXCEPT ![Len(stack)] =
                        [@ EXCEPT !.phase = "running",
                                  !.fired = Append(@, l)]]
    /\ UNCHANGED <<listeners, created, engine,
                   threeCamera, threeControls, modelLoader>>

\* the callback returns: a once listener is collected for removal
Return ==
    /\ stack # <<>>
    /\ Top.phase = "running"
    /\ LET l == Dispatched(Top)[Top.idx]
       IN  stack' = [stack EXCEPT ![Len(stack)] =
                        [@ EXCEPT !.phase = "dispatch",
                                  !.calls = 0,
                                  !.idx = @ + 1,
                                  !.toRemove = IF l.once THEN @ \cup {l.id} ELSE @]]
    /\ UNCHANGED <<listeners, created, engine,
                   threeCamera, threeControls, modelLoader>>

RaiseAborts ==
    /\ stack # <<>>
    /\ Top.phase = "running"
    /\ stack' = SubSeq(stack, 1, Len(stack) - 1)
    /\ UNCHANGED <<listeners, created, engine,
                   threeCamera, threeControls, modelLoader>>

\* the callback throws: the catch logs, the forEach goes on
Raise ==
    /\ stack # <<>>
    /\ Top.phase = "running"
    /\ stack' = [stack EXCEPT ![Len(stack)] =
                    [@ EXCEPT !.phase = "dispatch", !.calls = 0, !.idx = @ + 1]]
    /\ UNCHANGED <<listeners, created, engine,
                   threeCamera, threeControls, modelLoader>>

\* eventListeners.filter(listener => !toRemove.includes(listener))
RemainingListeners(f) ==
    SelectSeq(EventListenersOf(f), LAMBDA l : l.id \notin f.toRemove)

\* after the forEach: the batch removal of the once listeners, and the return
EmitEnd ==
    /\ stack # <<>>
    /\ Top.phase = "dispatch"
    /\ Top.idx > Len(Dispatched(Top))
    /\ LET f    == Top
           rest == SubSeq(stack, 1, Len(stack) - 1)
       IN  IF f.toRemove # {}
           THEN /\ listeners' = IF Len(RemainingListeners(f)) = 0
                                THEN MapDelete(listeners, f.event)
                                ELSE MapSet(listeners, f.event, RemainingListeners(f))
                /\ stack' = Detach(rest, f.event)
           ELSE /\ listeners' = listeners
                /\ stack' = rest
    /\ UNCHANGED <<created, engine, threeCamera, threeControls, modelLoader>>


(***************************************************************************)
(* useThreeEngine: the engine instance as a record of its refs and locals  *)
(***************************************************************************)
\* container elements handed to initialize ("null": no element)
Containers == {"null", "div"}
\* objects handed to add / remove
Objects == {"mesh", "grid"}
\* the lights setupBasicLighting adds
Lights == {"ambientLight", "directionalLight", "fillLight"}
\* widths and heights handed to resize (a call takes two different ones)
Sizes == {1, 2}
\* formats and qualities handed to screenshot
Formats == {"png", "jpeg"}
Qualities == {1}
\* where a call into the rendering library or the host throws
InitFailures == {"none", "webgl", "scene", "renderer", "camera", "controls",
                 "lighting"}
\* with no container element initialize throws before any such call
InitFailuresWith(containerElement) ==
    IF containerElement = "null" THEN {"none"} ELSE InitFailures
ResumeFailures == {"none", "observer"}
DisposeFailures == {"none", "observer", "controls", "clear", "renderer"}
\* what a subscriber of an engine event calls on the engine from inside its
\* callback, in order
ListenerCalls == {"startRenderLoop", "stopRenderLoop"}
Reactions ==
    UNION {[1..n -> ListenerCalls] : n \in 0..MaxListenerCalls}

\* instanceof THREE.Light / GridHelper / AxesHelper
IsPermanent(o) == o \in Lights \cup {"grid", "axes"}

NewEngine(config) ==
    [scene |-> 0, renderer |-> 0, camera |-> 0, controls |-> 0,
     isInitialized |-> FALSE, isRendering |-> FALSE, error |-> "null",
     container |-> "null", animationId |-> 0, resizeObserver |-> FALSE,
     config |-> config,
     rafQueue |-> <<>>,    \* animation-frame callbacks the host holds, in
                           \* the order it will run them
     awaiting |-> <<>>,    \* initialize calls suspended at their await
     children |-> {},      \* children of the scene object last created
     canvases |-> {},      \* renderer.domElement nodes inside the container
     aspect |-> <<0, 0>>,  \* camera.aspect as width / height, <<0, 0>> with
                           \* no camera
     size |-> <<0, 0>>,    \* renderer size, <<0, 0>> with no renderer
     gen |-> 0,            \* resource sets constructed so far
     disposed |-> FALSE,   \* a dispose call has run to its end
     shot |-> [threw |-> FALSE, type |-> "", quality |-> 0],
                           \* the outcome of the last call, a screenshot
     drew |-> FALSE,       \* the last call drew a frame
     looped |-> FALSE,     \* the last call was a frame callback that found
                           \* isRendering true
     steps |-> <<>>,       \* what the last frame callback did, in order
     emitted |-> <<>>]     \* events the last call published

\* eventBus.emit(name, data), with the engine state the listeners observe
Publish(e, name, data) ==
    [e EXCEPT !.emitted = Append(@,
        [name |-> name, data |-> data,
         isInitialized |-> e.isInitialized, isRendering |-> e.isRendering,
         scene |-> e.scene, renderer |-> e.renderer,
         camera |-> e.camera, controls |-> e.controls])]

\* requestAnimationFrame returns an id no pending callback and no stored
\* handle carries
Pending(e) == {e.rafQueue[i] : i \in 1..Len(e.rafQueue)}

FreshFrame(e) ==
    CHOOSE n \in 1..(Len(e.rafQueue) + 2) :
        /\ n \notin Pending(e) \cup {e.animationId}
        /\ \A k \in 1..(n - 1) : k \in Pending(e) \cup {e.animationId}

\* cancelAnimationFrame(id)
CancelFrame(queue, id) == SelectSeq(queue, LAMBDA x : x # id)

\* startRenderLoop without its test of isInitialized
StartRenderLoopUnguarded(e) ==
    IF e.isRendering THEN e
    ELSE [e EXCEPT !.isRendering = TRUE,
                   !.animationId = FreshFrame(e),
                   !.rafQueue = Append(@, FreshFrame(e))]

StartRenderLoopOn(e) ==
    IF e.isRendering \/ ~e.isInitialized THEN e
    ELSE [e EXCEPT !.isRendering = TRUE,
                   !.animationId = FreshFrame(e),
                   !.rafQueue = Append(@, FreshFrame(e))]

\* stopRenderLoop without its cancelAnimationFrame
StopRenderLoopKeepsFrame(e) ==
    [e EXCEPT !.animationId = 0, !.isRendering = FALSE]

StopRenderLoopOn(e) ==
    [e EXCEPT !.rafQueue = IF e.animationId # 0
                           THEN CancelFrame(@, e.animationId) ELSE @,
              !.animationId = 0,
              !.isRendering = FALSE]

\* render(): throws stands for renderer.render raising
RenderOn(e, throws) ==
    IF e.scene = 0 \/ e.camera = 0 \/ e.renderer = 0 THEN e
    ELSE IF throws THEN [e EXCEPT !.error = "render"]
    ELSE LET drawn == [e EXCEPT !.drew = TRUE]
         IN  IF GetListenerCount("engine:render") > 0
             THEN Publish(drawn, "engine:render", <<>>)
             ELSE drawn

\* resize with the camera aspect taken as height / width
ResizeOnInverted(e, width, height) ==
    IF e.camera = 0 \/ e.renderer = 0 THEN e
    ELSE Publish([e EXCEPT !.aspect = <<height, width>>,
                           !.size = <<width, height>>],
                 "engine:resize", <<width, height>>)

ResizeOn(e, width, height) ==
    IF e.camera = 0 \/ e.renderer = 0 THEN e
    ELSE Publish([e EXCEPT !.aspect = <<width, height>>,
                           !.size = <<width, height>>],
                 "engine:resize", <<width, height>>)

\* add without its test of the scene
AddOnUnguarded(e, object) ==
    Publish([e EXCEPT !.children = @ \cup {object}],
            "engine:objectAdded", <<object>>)

AddOn(e, object) ==
    IF e.scene = 0 THEN e
    ELSE Publish([e EXCEPT !.children = @ \cup {object}],
                 "engine:objectAdded", <<object>>)

RemoveOn(e, object) ==
    IF e.scene = 0 THEN e
    ELSE Publish([e EXCEPT !.children = @ \ {object}],
                 "engine:objectRemoved", <<object>>)

\* clear without its filter on lights and helpers
ClearOnEverything(e) ==
    IF e.scene = 0 THEN e
    ELSE Publish([e EXCEPT !.children = {}], "engine:sceneCleared", <<>>)

ClearOn(e) ==
    IF e.scene = 0 THEN e
    ELSE Publish([e EXCEPT !.children = {o \in @ : IsPermanent(o)}],
                 "engine:sceneCleared", <<>>)

\* no screenshot call returned last
NoShot == [threw |-> FALSE, type |-> "", quality |-> 0]

\* screenshot with its test made on isInitialized
ScreenshotResultByFlag(e, format, quality) ==
    IF ~e.isInitialized THEN [threw |-> TRUE, type |-> "", quality |-> 0]
    ELSE [threw |-> FALSE,
          type |-> IF format = "png" THEN "image/png" ELSE "image/jpeg",
          quality |-> quality]

\* the outcome of screenshot(format, quality): it throws, or returns what
\* toDataURL of the canvas gives for this type and quality
ScreenshotResult(e, format, quality) ==
    IF e.renderer = 0 THEN [threw |-> TRUE, type |-> "", quality |-> 0]
    ELSE [threw |-> FALSE,
          type |-> IF format = "png" THEN "image/png" ELSE "image/jpeg",
          quality |-> quality]

\* screenshot assigns nothing and publishes nothing
ScreenshotOn(e, format, quality) ==
    [e EXCEPT !.shot = ScreenshotResult(e, format, quality)]

\* the calls a subscriber makes from inside its callback
RECURSIVE React(_, _)
React(e, calls) ==
    IF calls = <<>> THEN e
    ELSE React(IF Head(calls) = "startRenderLoop"
               THEN StartRenderLoopOn(e) ELSE StopRenderLoopOn(e),
               Tail(calls))

\* the engine after the subscribers of the event it published last have run
Reacted(e, name, calls) ==
    IF /\ GetListenerCount(name) > 0
       /\ e.emitted # <<>>
       /\ e.emitted[Len(e.emitted)].name = name
    THEN React(e, calls)
    ELSE e

\* what the subscribers of an event may do when it is published
ReactionsTo(name) ==
    IF GetListenerCount(name) > 0 THEN Reactions ELSE {<<>>}

\* a catch block of initialize that records the error and publishes nothing
InitializeCatchSilent(e) == [e EXCEPT !.error = "init"]

\* the catch block of initialize
InitializeCatch(e) ==
    Publish([e EXCEPT !.error = "init"], "engine:error", <<>>)

\* initialize up to its await of setupBasicLighting
InitializeOn(e0, containerElement, failAt) ==
    LET g  == e0.gen + 1
        e1 == [e0 EXCEPT !.error = "null"]
        e2 == [e1 EXCEPT !.container = containerElement]
        e3 == [e2 EXCEPT !.scene = g, !.children = {}, !.gen = g]
        e4 == [e3 EXCEPT !.renderer = g, !.size = <<2, 1>>,
                         !.canvases = @ \cup {g}]
        e5 == [e4 EXCEPT !.camera = g, !.aspect = <<2, 1>>]
        e6 == [e5 EXCEPT !.controls = g]
    IN  CASE containerElement = "null" -> InitializeCatch(e1)
          [] failAt = "webgl"    -> InitializeCatch(e1)
          [] failAt = "scene"    -> InitializeCatch(e2)
          [] failAt = "renderer" -> InitializeCatch(e3)
          [] failAt = "camera"   -> InitializeCatch(e4)
          [] failAt = "controls" -> InitializeCatch(e5)
          [] failAt = "lighting" -> [e6 EXCEPT !.awaiting = Append(@, TRUE)]
          [] OTHER -> [e6 EXCEPT !.children = @ \cup Lights,
                                 !.awaiting = Append(@, FALSE)]

\* the continuation of initialize starting the loop whatever autoRender is
InitializeResumeAlwaysRenders(e0, failAt) ==
    LET rejected == Head(e0.awaiting)
        e1 == [e0 EXCEPT !.awaiting = Tail(@)]
        observes == e1.config.autoResize /\ e1.container # "null"
        e2 == IF observes THEN [e1 EXCEPT !.resizeObserver = TRUE] ELSE e1
        e3 == [e2 EXCEPT !.isInitialized = TRUE]
    IN  IF rejected \/ (observes /\ failAt = "observer")
        THEN InitializeCatch(e1)
        ELSE Publish(StartRenderLoopOn(e3), "engine:initialized", <<>>)

\* initialize from its await on
InitializeResumeOn(e0, failAt) ==
    LET rejected == Head(e0.awaiting)
        e1 == [e0 EXCEPT !.awaiting = Tail(@)]
        observes == e1.config.autoResize /\ e1.container # "null"
        e2 == IF observes THEN [e1 EXCEPT !.resizeObserver = TRUE] ELSE e1
        e3 == [e2 EXCEPT !.isInitialized = TRUE]
        e4 == IF e3.config.autoRender THEN StartRenderLoopOn(e3) ELSE e3
    IN  IF rejected \/ (observes /\ failAt = "observer")
        THEN InitializeCatch(e1)
        ELSE Publish(e4, "engine:initialized", <<>>)

\* the catch block of dispose
DisposeCatch(e) == [e EXCEPT !.error = "dispose"]

DisposeOn(e0, failAt, calls) ==
    LET e1 == StopRenderLoopOn(e0)
        e2 == [e1 EXCEPT !.resizeObserver = FALSE]
        e3 == [e2 EXCEPT !.controls = 0]
        removable == {o \in e3.children : ~IsPermanent(o)}
        e4 == IF e3.scene # 0
              THEN [Reacted(ClearOn(e3), "engine:sceneCleared", calls)
                       EXCEPT !.scene = 0]
              ELSE e3
        e5 == [e4 EXCEPT !.canvases = @ \ {e4.renderer}, !.renderer = 0,
                         !.size = <<0, 0>>]
        e6 == [e5 EXCEPT !.camera = 0, !.aspect = <<0, 0>>,
                         !.container = "null",
                         !.isInitialized = FALSE, !.error = "null"]
    IN  CASE failAt = "observer" /\ e1.resizeObserver -> DisposeCatch(e1)
          [] failAt = "controls" /\ e2.controls # 0 -> DisposeCatch(e2)
          [] failAt = "clear" /\ e3.scene # 0 /\ removable # {} ->
                DisposeCatch([e3 EXCEPT !.children =
                                 @ \ {CHOOSE o \in removable : TRUE}])
          [] failAt = "renderer" /\ e4.renderer # 0 -> DisposeCatch(e4)
          [] OTHER -> Publish([e6 EXCEPT !.disposed = TRUE],
                              "engine:disposed", <<>>)

\* one thing a frame callback does
Step(e, what) == [e EXCEPT !.steps = Append(@, what)]

\* one run of the animate closure the host calls back
AnimateOn(e0, throws, calls) ==
    LET e1 == [e0 EXCEPT !.rafQueue = Tail(@)]
        e2 == IF e1.controls # 0 THEN Step(e1, "controls.update") ELSE e1
        e3 == Reacted(RenderOn(Step(e2, "render"), throws),
                      "engine:render", calls)
    IN  IF ~e1.isRendering THEN e1
        ELSE Step([e3 EXCEPT !.animationId = FreshFrame(e3),
                             !.rafQueue = Append(@, FreshFrame(e3)),
                             !.looped = TRUE],
                  "requestAnimationFrame")

\* a call starts with nothing published and nothing drawn
Called(e) ==
    [e EXCEPT !.emitted = <<>>, !.drew = FALSE, !.looped = FALSE,
              !.steps = <<>>, !.shot = NoShot]

Initialize(containerElement, failAt) ==
    /\ engine.gen < MaxInits
    /\ engine' = InitializeOn(Called(engine), containerElement, failAt)
    /\ UNCHANGED <<busVars, threeCamera, threeControls, modelLoader>>

InitializeResume(failAt) ==
    /\ engine.awaiting # <<>>
    /\ engine' = InitializeResumeOn(Called(engine), failAt)
    /\ UNCHANGED <<busVars, threeCamera, threeControls, modelLoader>>

Dispose(failAt, calls) ==
    /\ engine' = DisposeOn(Called(engine), failAt, calls)
    /\ UNCHANGED <<busVars, threeCamera, threeControls, modelLoader>>

StartRenderLoop ==
    /\ engine' = StartRenderLoopOn(Called(engine))
    /\ UNCHANGED <<busVars, threeCamera, threeControls, modelLoader>>

StopRenderLoop ==
    /\ engine' = StopRenderLoopOn(Called(engine))
    /\ UNCHANGED <<busVars, threeCamera, threeControls, modelLoader>>

Render(throws) ==
    /\ engine' = RenderOn(Called(engine), throws)
    /\ UNCHANGED <<busVars, threeCamera, threeControls, modelLoader>>

Resize(width, height) ==
    /\ engine' = ResizeOn(Called(engine), width, height)
    /\ UNCHANGED <<busVars, threeCamera, threeControls, modelLoader>>

Add(object) ==
    /\ engine' = AddOn(Called(engine), object)
    /\ UNCHANGED <<busVars, threeCamera, threeControls, modelLoader>>

Remove(object) ==
    /\ engine' = RemoveOn(Called(engine), object)
    /\ UNCHANGED <<busVars, threeCamera, threeControls, modelLoader>>

ClearScene ==
    /\ engine' = ClearOn(Called(engine))
    /\ UNCHANGED <<busVars, threeCamera, threeControls, modelLoader>>

Screenshot(format, quality) ==
    /\ engine' = ScreenshotOn(Called(engine), format, quality)
    /\ UNCHANGED <<busVars, threeCamera, threeControls, modelLoader>>

\* the host runs the animation-frame callback requested first; the
\* continuation of a suspended initialize (a microtask) runs before any frame
Animate(throws, calls) ==
    /\ engine.awaiting = <<>>
    /\ engine.rafQueue # <<>>
    /\ engine' = AnimateOn(Called(engine), throws, calls)
    /\ UNCHANGED <<busVars, threeCamera, threeControls, modelLoader>>

(***************************************************************************)
(* useThreeCamera (src/src/composables/core/three/useThreeCamera.ts):      *)
(* the camera ref, its animation and the promises animateTo returns.       *)
(* Positions are taken on one axis; orientation (lookAt), projection       *)
(* (updateAspect, fov) and presets move no position by themselves and are  *)
(* left out, the calls setPreset, lookAt and zoomToFit make to animateTo   *)
(* are calls of AnimateTo.                                                 *)
(***************************************************************************)
\* eased progress is counted in 1/EaseScale
EaseScale == 4
\* positions a caller asks for and a supplied camera starts at
Positions == {0, 4}
\* config.duration, in ticks of the frame clock
Durations == {1, 2}
\* config.easing; "linear" also stands for an omitted or unknown value
Easings == {"linear", "easeIn", "easeOut", "easeInOut"}
CameraTypes == {"perspective", "orthographic"}
\* ticks between two animation frames
FrameGaps == {0, 1, 2}
\* calls of animateTo on one instance
MaxAnimateCalls == 3
\* cameras one instance creates (the first one and those of switchCamera)
MaxCameras == 2
\* the frame clock stops here
MaxTime == 4

\* the state after useThreeCamera(camera, options): a camera always exists,
\* supplied or created (465-470)
NewCamera(optionsType, position) ==
    [cameraRef   |-> 1,
     cameras     |-> <<position>>,
     type        |-> optionsType,
     isAnimating |-> FALSE,
     animationId |-> 0,
     rafQueue    |-> <<>>,
     promises    |-> <<>>,
     now         |-> 0,
     emitted     |-> <<>>]

CameraCalled(c) == [c EXCEPT !.emitted = <<>>]

CameraPublish(c, event) == [c EXCEPT !.emitted = Append(@, event)]

\* requestAnimationFrame returns an id no pending request has
CameraFreshFrame(c) ==
    CHOOSE id \in 1..(Len(c.rafQueue) + 1) :
        \A i \in DOMAIN c.rafQueue : c.rafQueue[i].id # id

\* cancelAnimationFrame(id)
CameraCancelFrame(queue, id) ==
    SelectSeq(queue, LAMBDA f : f.id # id)

\* the eased progress of elapsed/duration capped at 1, in 1/EaseScale
\* (308-329); num/den is the capped progress
EasedProgress(easing, num, den) ==
    CASE easing = "easeIn" -> (EaseScale * num * num) \div (den * den)
      [] easing = "easeInOut" ->
            IF 2 * num < den
            THEN (2 * EaseScale * num * num) \div (den * den)
            ELSE EaseScale
                 - (EaseScale * (2 * den - 2 * num) * (2 * den - 2 * num))
                       \div (2 * den * den)
      [] easing = "easeOut" ->
            EaseScale
            - (EaseScale * (den - num) * (den - num)) \div (den * den)
      [] OTHER -> (EaseScale * num) \div den

\* Vector3.lerpVectors(v1, v2, alpha): v1 + (v2 - v1) * alpha
LerpVectors(startPosition, endPosition, eased) ==
    startPosition + ((endPosition - startPosition) * eased) \div EaseScale

\* the promise of one call: the camera the call found, whether the call
\* started an animation, and what had happened to that camera when the
\* promise was resolved
NewPromise(c, position) ==
    [position |-> position,
     camera   |-> c.cameraRef,
     started  |-> FALSE,
     resolved |-> FALSE,
     finalStep |-> FALSE,
     placedAt |-> -1]

\* resolve() of promise number p
Resolve(c, p, finalStep) ==
    [c EXCEPT !.promises[p] =
        [@ EXCEPT !.resolved = TRUE,
                  !.finalStep = finalStep,
                  !.placedAt = IF c.promises[p].camera = 0 THEN -1
                               ELSE c.cameras[c.promises[p].camera]]]

\* animateTo(position, undefined, {duration, easing}) (252-356)
AnimateToOn(c0, position, duration, easing) ==
    LET p  == Len(c0.promises) + 1
        c1 == [c0 EXCEPT !.promises = Append(@, NewPromise(c0, position))]
    IN  IF c1.cameraRef = 0 \/ c1.isAnimating
        THEN Resolve(c1, p, FALSE)
        ELSE LET id == CameraFreshFrame(c1)
                 c2 == CameraPublish([c1 EXCEPT !.isAnimating = TRUE,
                                                !.promises[p].started = TRUE],
                                     "camera:animationStart")
             IN  [c2 EXCEPT
                    !.animationId = id,
                    !.rafQueue = Append(@,
                        [id |-> id,
                         camera |-> c1.cameraRef,
                         startPosition |-> c1.cameras[c1.cameraRef],
                         endPosition |-> position,
                         startTime |-> c1.now,
                         duration |-> duration,
                         easing |-> easing,
                         promise |-> p])]

\* the callback animate(currentTime) of one animation (304-352), run by the
\* host for the oldest pending request
CameraAnimateOn(c0, currentTime) ==
    LET f       == Head(c0.rafQueue)
        c1      == [c0 EXCEPT !.rafQueue = Tail(@), !.now = currentTime]
        elapsed == currentTime - f.startTime
        num     == IF elapsed < f.duration THEN elapsed ELSE f.duration
        eased   == EasedProgress(f.easing, num, f.duration)
        c2      == [c1 EXCEPT !.cameras[f.camera] =
                       LerpVectors(f.startPosition, f.endPosition, eased)]
    IN  IF num < f.duration
        THEN LET id == CameraFreshFrame(c2)
             IN  [c2 EXCEPT !.animationId = id,
                            !.rafQueue = Append(@, [f EXCEPT !.id = id])]
        ELSE Resolve(
                 CameraPublish([c2 EXCEPT !.isAnimating = FALSE,
                                          !.animationId = 0],
                               "camera:animationEnd"),
                 f.promise, TRUE)

\* setPosition(position, animate) (203-224)
SetPositionOn(c, position, animate, duration) ==
    IF c.cameraRef = 0 THEN c
    ELSE IF animate THEN AnimateToOn(c, position, duration, "linear")
    ELSE CameraPublish([c EXCEPT !.cameras[c.cameraRef] = position],
                       "camera:moved")

\* switchCamera(newType): a new camera at the position of the current one
\* (149-179)
SwitchCameraOn(c, newType) ==
    IF c.cameraRef = 0 THEN c
    ELSE [c EXCEPT !.cameras = Append(@, c.cameras[c.cameraRef]),
                   !.cameraRef = Len(c.cameras) + 1,
                   !.type = newType]

\* dispose() (463-476)
CameraDisposeOn(c) ==
    [c EXCEPT !.rafQueue = IF c.animationId # 0
                           THEN CameraCancelFrame(@, c.animationId) ELSE @,
              !.animationId = 0,
              !.isAnimating = FALSE,
              !.cameraRef = 0]

\* an animation started now ends before the frame clock stops
EndsInTime(duration) == threeCamera.now + duration <= MaxTime

AnimateTo(position, duration, easing) ==
    /\ Len(threeCamera.promises) < MaxAnimateCalls
    /\ EndsInTime(duration)
    /\ threeCamera' =
          AnimateToOn(CameraCalled(threeCamera), position, duration, easing)
    /\ UNCHANGED <<busVars, engine, threeControls, modelLoader>>

CameraAnimate(gap) ==
    /\ threeCamera.rafQueue # <<>>
    /\ threeCamera.now + gap <= MaxTime
    /\ threeCamera' =
          CameraAnimateOn(CameraCalled(threeCamera), threeCamera.now + gap)
    /\ UNCHANGED <<busVars, engine, threeControls, modelLoader>>

SetPosition(position, animate, duration) ==
    /\ animate /\ threeCamera.cameraRef # 0
          => Len(threeCamera.promises) < MaxAnimateCalls /\ EndsInTime(duration)
    /\ threeCamera' =
          SetPositionOn(CameraCalled(threeCamera), position, animate, duration)
    /\ UNCHANGED <<busVars, engine, threeControls, modelLoader>>

SwitchCamera(newType) ==
    /\ Len(threeCamera.cameras) < MaxCameras
    /\ threeCamera' = SwitchCameraOn(CameraCalled(threeCamera), newType)
    /\ UNCHANGED <<busVars, engine, threeControls, modelLoader>>

CameraDispose ==
    /\ threeCamera' = CameraDisposeOn(CameraCalled(threeCamera))
    /\ UNCHANGED <<busVars, engine, threeControls, modelLoader>>

(***************************************************************************)
(* useThreeControls (src/src/composables/core/three/useThreeControls.ts):  *)
(* the controls ref, its flags and the automatic update loop.              *)
(***************************************************************************)
ControlsTypes == {"orbit", "transform"}

\* the state after useThreeControls(camera, domElement, options): controls
\* are created when a camera and an element are given (390-392), and the
\* update loop is requested unless options.autoUpdate is false (395-401)
NewControls(given, optionsType, autoUpdate) ==
    [controlsRef |-> IF given THEN 1 ELSE 0,
     type        |-> optionsType,
     enabled     |-> TRUE,
     target      |-> 0,
     controlsEnabled |-> TRUE,  \* controlsRef.value.enabled
     controlsTarget  |-> 0,     \* controlsRef.value.target (orbit controls)
     autoUpdate  |-> autoUpdate,
     rafQueue    |-> IF autoUpdate THEN <<"updateLoop">> ELSE <<>>,
     released    |-> 0,         \* controls instances dispose() was called on
     disposed    |-> FALSE,     \* a dispose call of the composable has ended
     updated     |-> FALSE]     \* the last call ran controls.update()

ControlsCalled(c) == [c EXCEPT !.updated = FALSE]

\* switchControls(newType, cam, element) (231-262)
SwitchControlsOn(c, newType) ==
    [c EXCEPT !.released = IF c.controlsRef # 0 THEN 1 ELSE @,
              !.controlsRef = 1,
              !.controlsEnabled = TRUE,
              !.controlsTarget = 0,
              !.type = newType]

\* setTarget(newTarget) (268-275): only orbit controls have a target
SetTargetOn(c, newTarget) ==
    IF c.controlsRef # 0 /\ c.type = "orbit"
    THEN [c EXCEPT !.target = newTarget, !.controlsTarget = newTarget,
                   !.updated = TRUE]
    ELSE [c EXCEPT !.target = newTarget]

\* setEnabled(isEnabled) (280-286)
SetEnabledOn(c, isEnabled) ==
    IF c.controlsRef # 0
    THEN [c EXCEPT !.enabled = isEnabled, !.controlsEnabled = isEnabled]
    ELSE [c EXCEPT !.enabled = isEnabled]

\* update() (291-295)
UpdateOn(c) ==
    IF c.controlsRef # 0 THEN [c EXCEPT !.updated = TRUE] ELSE c

\* dispose() (375-387)
ControlsDisposeOn(c) ==
    [c EXCEPT !.released = IF c.controlsRef # 0 THEN 1 ELSE @,
              !.controlsRef = 0,
              !.enabled = TRUE,
              !.target = 0,
              !.disposed = TRUE]

\* the callback updateLoop (396-399)
UpdateLoopOn(c) ==
    LET c1 == UpdateOn([c EXCEPT !.rafQueue = Tail(@)])
    IN  [c1 EXCEPT !.rafQueue = Append(@, "updateLoop")]

SwitchControls(newType) ==
    /\ threeControls' = SwitchControlsOn(ControlsCalled(threeControls), newType)
    /\ UNCHANGED <<busVars, engine, threeCamera, modelLoader>>

SetTarget(newTarget) ==
    /\ threeControls' = SetTargetOn(ControlsCalled(threeControls), newTarget)
    /\ UNCHANGED <<busVars, engine, threeCamera, modelLoader>>

SetEnabled(isEnabled) ==
    /\ threeControls' = SetEnabledOn(ControlsCalled(threeControls), isEnabled)
    /\ UNCHANGED <<busVars, engine, threeCamera, modelLoader>>

Update ==
    /\ threeControls' = UpdateOn(ControlsCalled(threeControls))
    /\ UNCHANGED <<busVars, engine, threeCamera, modelLoader>>

ControlsDispose ==
    /\ threeControls' = ControlsDisposeOn(ControlsCalled(threeControls))
    /\ UNCHANGED <<busVars, engine, threeCamera, modelLoader>>

UpdateLoop ==
    /\ threeControls.rafQueue # <<>>
    /\ threeControls' = UpdateLoopOn(ControlsCalled(threeControls))
    /\ UNCHANGED <<busVars, engine, threeCamera, modelLoader>>

(***************************************************************************)
(* useModelLoader (src/unnamed/part_002): the model cache, the model-info  *)
(* map and the loads in flight.                                            *)
(***************************************************************************)
\* urls handed to loadModel, all of a format that has a loader
Urls == {"a.glb", "b.glb"}
\* loads one instance hands to its loaders
MaxLoads == 3

\* the state after useModelLoader(options)
NewLoader ==
    [loadedModels |-> {},    \* keys of the model cache
     modelInfos   |-> {},    \* keys of the model-info map
     loading      |-> FALSE,
     error        |-> "null",
     loaders      |-> TRUE,  \* initializeLoaders has filled the loader map
     inFlight     |-> <<>>,  \* loads handed to a loader and not finished
     started      |-> 0,     \* loads handed to a loader so far
     cleared      |-> FALSE, \* dispose or clearCache() has run and no
                             \* loadModel call was made since
     outcome      |-> "none",
     emitted      |-> <<>>]

LoaderCalled(l) == [l EXCEPT !.emitted = <<>>, !.outcome = "none"]

LoaderPublish(l, event) == [l EXCEPT !.emitted = Append(@, event)]

\* loadingManager.onStart (119-129): the manager calls it when a load
\* starts while no other is in progress
ManagerOnStart(l) ==
    IF l.inFlight = <<>>
    THEN [l EXCEPT !.loading = TRUE, !.error = "null"]
    ELSE l

\* loadingManager.onLoad (158-171): called when the last load in progress
\* has finished
ManagerOnLoad(l) ==
    IF l.inFlight = <<>> THEN [l EXCEPT !.loading = FALSE] ELSE l

\* loadingManager.onError (173-185)
ManagerOnError(l) ==
    LoaderPublish([l EXCEPT !.loading = FALSE, !.error = "load"],
                  "loader:error")

\* loadModel(url, {enableCache}) up to loader.load (317-425)
LoadModelOn(l0, url, enableCache) ==
    LET l1 == [l0 EXCEPT !.cleared = FALSE]
        l2 == IF enableCache THEN LoaderPublish(l1, "loader:cache:miss")
              ELSE l1
        l3 == ManagerOnStart(LoaderPublish(l2, "loader:start"))
    IN  IF enableCache /\ url \in l1.loadedModels
        THEN [LoaderPublish(l1, "loader:cache:hit") EXCEPT !.outcome = "hit"]
        ELSE IF ~l2.loaders THEN [l2 EXCEPT !.outcome = "throws"]
        ELSE [l3 EXCEPT !.inFlight = Append(@, [url |-> url,
                                                enableCache |-> enableCache]),
                        !.started = @ + 1,
                        !.outcome = "pending"]

\* all but element number k of a sequence
Without(seq, k) == SubSeq(seq, 1, k - 1) \o SubSeq(seq, k + 1, Len(seq))

\* the callback onLoad of load number k in flight (361-407)
OnLoadOn(l0, k) ==
    LET load == l0.inFlight[k]
        l1 == [l0 EXCEPT !.inFlight = Without(@, k),
                         !.modelInfos = @ \cup {load.url},
                         !.loadedModels = IF load.enableCache
                                          THEN @ \cup {load.url} ELSE @]
    IN  ManagerOnLoad([LoaderPublish(l1, "loader:complete")
                          EXCEPT !.outcome = "resolved"])

\* the callback onError of load number k in flight (413-418)
OnErrorOn(l0, k) ==
    LET l1 == [l0 EXCEPT !.inFlight = Without(@, k), !.outcome = "rejected"]
    IN  ManagerOnLoad(ManagerOnError(l1))

\* clearCache(url) (464-476)
ClearCacheOn(l, url) ==
    IF Truthy(url)
    THEN [l EXCEPT !.loadedModels = @ \ {url}, !.modelInfos = @ \ {url}]
    ELSE [l EXCEPT !.loadedModels = {}, !.modelInfos = {}, !.cleared = TRUE]

\* dispose() (493-521)
LoaderDisposeOn(l) ==
    [ClearCacheOn([l EXCEPT !.loading = FALSE], Undefined)
        EXCEPT !.loaders = FALSE, !.error = "null"]

LoadModel(url, enableCache) ==
    /\ modelLoader.started < MaxLoads
    /\ modelLoader' = LoadModelOn(LoaderCalled(modelLoader), url, enableCache)
    /\ UNCHANGED <<busVars, engine, threeCamera, threeControls>>

OnLoad(k) ==
    /\ k \in DOMAIN modelLoader.inFlight
    /\ modelLoader' = OnLoadOn(LoaderCalled(modelLoader), k)
    /\ UNCHANGED <<busVars, engine, threeCamera, threeControls>>

OnError(k) ==
    /\ k \in DOMAIN modelLoader.inFlight
    /\ modelLoader' = OnErrorOn(LoaderCalled(modelLoader), k)
    /\ UNCHANGED <<busVars, engine, threeCamera, threeControls>>

ClearCache(url) ==
    /\ modelLoader' = ClearCacheOn(LoaderCalled(modelLoader), url)
    /\ UNCHANGED <<busVars, engine, threeCamera, threeControls>>

LoaderDispose ==
    /\ modelLoader' = LoaderDisposeOn(LoaderCalled(modelLoader))
    /\ UNCHANGED <<busVars, engine, threeCamera, threeControls>>

(***************************************************************************)
(* Specification of the event bus                                          *)
(***************************************************************************)
Init ==
    /\ listeners = << >>
    /\ stack = <<>>
    /\ created = <<>>
    /\ engine = NewEngine([autoRender |-> TRUE, autoResize |-> TRUE])
    /\ threeCamera = NewCamera("perspective", 0)
    /\ threeControls = NewControls(TRUE, "orbit", TRUE)
    /\ modelLoader = NewLoader

Next ==
    \/ \E e \in Events, cb \in Callbacks, o \in BOOLEAN, p \in Priorities :
          On(e, cb, o, p)
    \/ \E e \in Events, cb \in Callbacks : Once(e, cb)
    \/ \E e \in Events, cb \in Callbacks \cup {Undefined} : Off(e, cb)
    \/ \E id \in 1..MaxSubs : Unsubscribe(id)
    \/ Clear
    \/ \E e \in Events : EmitBegin(e)
    \/ Invoke
    \/ Return
    \/ Raise
    \/ EmitEnd

Spec == Init /\ [][Next]_vars

(***************************************************************************)
(* Specification of one engine instance                                    *)
(***************************************************************************)
\* dispose publishes 'engine:sceneCleared' only with a scene to clear
DisposeReactions ==
    IF engine.scene # 0 THEN ReactionsTo("engine:sceneCleared") ELSE {<<>>}

\* a frame publishes 'engine:render' only when it ran render to its end
AnimateReactions(throws) ==
    IF engine.isRendering /\ ~throws
    THEN ReactionsTo("engine:render") ELSE {<<>>}

\* the subscribers of the events the engine publishes in the middle of a
\* call, on the global bus: none, or one per event (a subscriber may do
\* nothing, so these two cover a subscriber of one event only)
EngineListeners ==
    {[n \in names |->
         <<[id |-> 1, callback |-> "f", once |-> FALSE, priority |-> 0]>>] :
      names \in {{}, {"engine:render", "engine:sceneCleared"}}}

EngineInit ==
    /\ listeners \in EngineListeners
    /\ stack = <<>>
    /\ created = <<>>
    /\ \E autoRender \in BOOLEAN, autoResize \in BOOLEAN :
          engine = NewEngine([autoRender |-> autoRender, autoResize |-> autoResize])
    /\ threeCamera = NewCamera("perspective", 0)
    /\ threeControls = NewControls(TRUE, "orbit", TRUE)
    /\ modelLoader = NewLoader

EngineNext ==
    \/ \E c \in Containers : \E failAt \in InitFailuresWith(c) :
          Initialize(c, failAt)
    \/ \E failAt \in ResumeFailures : InitializeResume(failAt)
    \/ \E failAt \in DisposeFailures : \E calls \in DisposeReactions :
          Dispose(failAt, calls)
    \/ StartRenderLoop
    \/ StopRenderLoop
    \/ \E throws \in BOOLEAN : Render(throws)
    \/ \E w \in Sizes : \E h \in Sizes \ {w} : Resize(w, h)
    \/ \E o \in Objects : Add(o)
    \/ \E o \in Objects : Remove(o)
    \/ ClearScene
    \/ \E format \in Formats, quality \in Qualities :
          Screenshot(format, quality)
    \/ \E throws \in BOOLEAN : \E calls \in AnimateReactions(throws) :
          Animate(throws, calls)

EngineSpec == EngineInit /\ [][EngineNext]_vars

\* the calls that bear on the render loop (resize, add, remove and clear
\* touch neither its flags nor the resources a frame needs)
EngineLoopNext ==
    \/ \E c \in Containers : \E failAt \in InitFailuresWith(c) :
          Initialize(c, failAt)
    \/ \E failAt \in ResumeFailures : InitializeResume(failAt)
    \/ \E failAt \in DisposeFailures : \E calls \in DisposeReactions :
          Dispose(failAt, calls)
    \/ StartRenderLoop
    \/ StopRenderLoop
    \/ \E throws \in BOOLEAN : Render(throws)
    \/ \E throws \in BOOLEAN : \E calls \in AnimateReactions(throws) :
          Animate(throws, calls)

\* the host keeps running requested animation-frame callbacks, and
\* renderer.render does not throw in every one of them
HostRunsFrames ==
    WF_vars(\E calls \in Reactions :
                calls \in AnimateReactions(FALSE) /\ Animate(FALSE, calls))

\* the continuation of a suspended initialize is a microtask: it runs
HostRunsContinuations ==
    WF_vars(\E failAt \in ResumeFailures : InitializeResume(failAt))

EngineLiveSpec ==
    /\ EngineInit
    /\ [][EngineLoopNext]_vars
    /\ HostRunsFrames
    /\ HostRunsContinuations

(***************************************************************************)
(* Specification of the camera                                             *)
(***************************************************************************)
CameraInit ==
    /\ listeners = << >>
    /\ stack = <<>>
    /\ created = <<>>
    /\ engine = NewEngine([autoRender |-> TRUE, autoResize |-> TRUE])
    /\ \E optionsType \in CameraTypes, position \in Positions :
          threeCamera = NewCamera(optionsType, position)
    /\ threeControls = NewControls(TRUE, "orbit", TRUE)
    /\ modelLoader = NewLoader

CameraNext ==
    \/ \E position \in Positions, duration \in Durations, easing \in Easings :
          AnimateTo(position, duration, easing)
    \/ \E gap \in FrameGaps : CameraAnimate(gap)
    \/ \E position \in Positions, animate \in BOOLEAN, duration \in Durations :
          SetPosition(position, animate, duration)
    \/ \E newType \in CameraTypes : SwitchCamera(newType)
    \/ CameraDispose

CameraSpec == CameraInit /\ [][CameraNext]_vars

\* the host keeps running requested animation-frame callbacks, each at a
\* later time than the one before
HostRunsCameraFrames ==
    WF_vars(\E gap \in FrameGaps \ {0} : CameraAnimate(gap))

CameraLiveSpec ==
    /\ CameraInit
    /\ [][CameraNext]_vars
    /\ HostRunsCameraFrames

(***************************************************************************)
(* Specification of the controls                                           *)
(***************************************************************************)
ControlsInit ==
    /\ listeners = << >>
    /\ stack = <<>>
    /\ created = <<>>
    /\ engine = NewEngine([autoRender |-> TRUE, autoResize |-> TRUE])
    /\ threeCamera = NewCamera("perspective", 0)
    /\ modelLoader = NewLoader
    /\ \E given \in BOOLEAN, optionsType \in ControlsTypes,
          autoUpdate \in BOOLEAN :
          threeControls = NewControls(given, optionsType, autoUpdate)

ControlsNext ==
    \/ \E newType \in ControlsTypes : SwitchControls(newType)
    \/ \E newTarget \in Positions : SetTarget(newTarget)
    \/ \E isEnabled \in BOOLEAN : SetEnabled(isEnabled)
    \/ Update
    \/ ControlsDispose
    \/ UpdateLoop

ControlsSpec == ControlsInit /\ [][ControlsNext]_vars

(***************************************************************************)
(* Specification of the model loader                                       *)
(***************************************************************************)
LoaderInit ==
    /\ listeners = << >>
    /\ stack = <<>>
    /\ created = <<>>
    /\ engine = NewEngine([autoRender |-> TRUE, autoResize |-> TRUE])
    /\ threeCamera = NewCamera("perspective", 0)
    /\ threeControls = NewControls(TRUE, "orbit", TRUE)
    /\ modelLoader = NewLoader

LoaderNext ==
    \/ \E url \in Urls, enableCache \in BOOLEAN : LoadModel(url, enableCache)
    \/ \E k \in 1..MaxLoads : OnLoad(k)
    \/ \E k \in 1..MaxLoads : OnError(k)
    \/ \E url \in Urls \cup {Undefined} : ClearCache(url)
    \/ LoaderDispose

LoaderSpec == LoaderInit /\ [][LoaderNext]_vars

(***************************************************************************)
(* Properties of the event bus                                             *)
(***************************************************************************)
Frames == {stack[k] : k \in 1..Len(stack)}

\* C1: within one emit the callbacks are invoked in descending priority
\* order, and listeners of equal priority in the order of their registration
\* (listener identities are handed out in registration order).
C1_PriorityOrder ==
    \A f \in Frames :
        \A i, j \in 1..Len(f.fired) :
            i < j =>
                /\ f.fired[i].priority >= f.fired[j].priority
                /\ f.fired[i].priority = f.fired[j].priority
                       => f.fired[i].id < f.fired[j].id

\* A (priority 0), B (priority 5), C (priority 0) have fired as B, A, C
C1_Witness ==
    \E f \in Frames :
        /\ Len(f.fired) = 3
        /\ f.fired[1].id = 2 /\ f.fired[1].priority = 5
        /\ f.fired[2].id = 1 /\ f.fired[2].priority = 0
        /\ f.fired[3].id = 3 /\ f.fired[3].priority = 0

\* C2: once an emit that invoked a once listener has returned, that listener
\* is no longer registered, whether its callback returned or raised.
C2_OnceRemovedAfterEmit ==
    [][Len(stack') < Len(stack) =>
          \A i \in 1..Len(Top.fired) :
              Top.fired[i].once =>
                  Top.fired[i].id \notin Ids(MapGet(listeners', Top.event))]_vars

\* C3: an emit returns only after it has invoked every listener that was
\* registered when it started, whatever the callbacks raised.
C3_RaiseIsolated ==
    [][Len(stack') < Len(stack) =>
          /\ Top.phase = "dispatch"
          /\ {Top.fired[i].id : i \in 1..Len(Top.fired)} = Top.present]_vars

\* the first callback of a dispatch raised (a once listener that was not
\* collected for removal) and the later ones have run
C3_Witness ==
    \E f \in Frames :
        /\ Len(f.sorted) >= 2
        /\ f.idx > Len(f.sorted)
        /\ f.sorted[1].once
        /\ f.sorted[1].id \notin f.toRemove
        /\ {f.fired[i].id : i \in 1..Len(f.fired)} = f.present

\* C4: the function returned by on removes the listener that on call
\* created and no other listener.
C4_UnsubscribeRemovesOnlyItsOwn ==
    [][\A id \in 1..Len(created) :
          Unsubscribe(id) =>
              \A e \in Events :
                  Ids(MapGet(listeners', e)) = Ids(MapGet(listeners, e)) \ {id}]_vars

\* C5: after off(e) without a callback getListenerCount(e) is 0, e has no
\* listeners to emit to, and the other events keep theirs.
C5_OffAllLeavesZero ==
    [][\A e \in Events :
          Off(e, Undefined) =>
              /\ GetListenerCountOf(listeners', e) = 0
              /\ MapGet(listeners', e) = <<>>
              /\ \A o \in Events \ {e} :
                    MapGet(listeners', o) = MapGet(listeners, o)]_vars

\* C6: off(e, cb) removes all and only the listeners of e whose callback is
\* cb, keeps the others in their order, leaves the other events alone, and
\* changes nothing when no listener of e has callback cb.
C6_OffCallbackFrame ==
    [][\A e \in Events, cb \in Callbacks :
          Off(e, cb) =>
              LET old == MapGet(listeners, e)
                  new == MapGet(listeners', e)
                  kept == {j \in 1..Len(old) : old[j].callback # cb}
              IN  /\ \A i \in 1..Len(new) :
                        new[i].callback # cb /\ \E j \in kept : old[j] = new[i]
                  /\ \A j \in kept : \E i \in 1..Len(new) : new[i] = old[j]
                  /\ Len(new) = Cardinality(kept)
                  /\ \A i1, i2 \in 1..Len(new) :
                        i1 < i2 => new[i1].id < new[i2].id
                  /\ \A o \in Events \ {e} :
                        /\ (o \in DOMAIN listeners') = (o \in DOMAIN listeners)
                        /\ MapGet(listeners', o) = MapGet(listeners, o)
                  /\ Cardinality(kept) = Len(old) => listeners' = listeners]_vars

\* f, g, f were registered for "a"; off("a", f) has left g alone
C6_Witness ==
    /\ Len(created) = 3
    /\ \A i \in 1..3 : created[i].event = "a"
    /\ created[1].callback = "f" /\ created[2].callback = "g"
    /\ created[3].callback = "f"
    /\ DOMAIN listeners = {"a"}
    /\ Ids(listeners["a"]) = {2}
    /\ ~listeners["a"][1].once
    /\ stack = <<>>

\* C7: no event name is a key of the registry with an empty listener array;
\* getEventNames lists exactly the events that have a listener.
C7_NoEmptyEntry ==
    /\ \A e \in DOMAIN listeners : Len(listeners[e]) > 0
    /\ GetEventNames = {e \in Events : Len(MapGet(listeners, e)) > 0}

\* a callback has removed the last listener while its dispatch is running
C7_Witness ==
    /\ stack # <<>>
    /\ Len(created) > 0
    /\ DOMAIN listeners = {}

RECURSIVE SumOfCounts(_)
\* the sum of getListenerCount(n) over the names
SumOfCounts(names) ==
    IF names = {} THEN 0
    ELSE LET n == CHOOSE x \in names : TRUE
         IN  GetListenerCount(n) + SumOfCounts(names \ {n})

\* C8: getListenerCount() equals the sum of getListenerCount(e) over the
\* events that have a listener.
C8_TotalIsSum ==
    GetListenerCount(Undefined) =
        SumOfCounts({e \in Events : Len(MapGet(listeners, e)) > 0})

\* C9: a once listener that has fired in a dispatch still in progress is not
\* invoked again by an emit nested in that dispatch.
C9_OnceNotReinvokedNested ==
    \A i, j \in 1..Len(stack) :
        i < j =>
            \A x \in 1..Len(stack[i].fired), y \in 1..Len(stack[j].fired) :
                stack[i].fired[x].once =>
                    stack[i].fired[x].id # stack[j].fired[y].id

(***************************************************************************)
(* Properties of the engine                                                *)
(***************************************************************************)
\* C10: isInitialized implies scene, renderer, camera and controls are all
\* non-null.
C10_InitializedHasResources ==
    engine.isInitialized =>
        /\ engine.scene # 0
        /\ engine.renderer # 0
        /\ engine.camera # 0
        /\ engine.controls # 0

\* C11: in every reachable state, isRendering implies isInitialized.
C11_RenderingImpliesInitialized ==
    engine.isRendering => engine.isInitialized

\* the last call was a dispose that ran to its end on an initialized engine
JustDisposed ==
    /\ engine.emitted # <<>>
    /\ engine.emitted[Len(engine.emitted)].name = "engine:disposed"
    /\ engine.emitted[1].isInitialized

\* C12: a dispose that directly follows a completed dispose of an
\* initialized engine changes no state, publishes no event and records no
\* failure, so that two calls in a row are equivalent to one.
C12_DisposeIdempotent ==
    [][\A failAt \in DisposeFailures, calls \in Reactions :
          (JustDisposed /\ engine' = DisposeOn(Called(engine), failAt, calls))
              => /\ Called(engine') = Called(engine)
                 /\ engine'.emitted = <<>>
                 /\ engine'.error = "null"]_vars

\* C13: initialize on an initialized engine that was not disposed attaches no
\* second output surface to the container and keeps the live scene,
\* renderer, camera and controls, whether it fails or not.
C13_InitializeOnce ==
    [][\A c \in Containers :
          \A failAt \in InitFailuresWith(c) :
          (engine.isInitialized /\ ~engine.disposed
             /\ engine' = InitializeOn(Called(engine), c, failAt))
              => /\ engine'.canvases = engine.canvases
                 /\ engine'.scene = engine.scene
                 /\ engine'.renderer = engine.renderer
                 /\ engine'.camera = engine.camera
                 /\ engine'.controls = engine.controls]_vars

\* C14: once a dispose has run to its end, isInitialized and isRendering
\* stay false and scene, renderer, camera and controls stay null.
C14_DisposedIsTerminal ==
    engine.disposed =>
        /\ ~engine.isInitialized
        /\ ~engine.isRendering
        /\ engine.scene = 0
        /\ engine.renderer = 0
        /\ engine.camera = 0
        /\ engine.controls = 0

\* C15: between operations scene, renderer, camera and controls are all
\* null or all non-null.
C15_ResourcesAllOrNone ==
    \/ /\ engine.scene = 0
       /\ engine.renderer = 0
       /\ engine.camera = 0
       /\ engine.controls = 0
    \/ /\ engine.scene # 0
       /\ engine.renderer # 0
       /\ engine.camera # 0
       /\ engine.controls # 0

\* the events of that name among the ones the last call published
Published(e, name) ==
    {i \in 1..Len(e.emitted) : e.emitted[i].name = name}

\* initialize(c) fails before its await
FailsEarly(c, failAt) ==
    c = "null" \/ failAt \in {"webgl", "scene", "renderer", "camera", "controls"}

\* the continuation of the initialize suspended first fails
FailsLate(failAt) ==
    IF engine.awaiting = <<>> THEN FALSE
    ELSE \/ Head(engine.awaiting)
         \/ /\ failAt = "observer"
            /\ engine.config.autoResize
            /\ engine.container # "null"

\* what a failed initialize leaves: e before the call, r after it,
\* suspended the initialize calls still at their await
InitializeFailed(e, r, suspended) ==
    /\ r.error = "init"
    /\ Cardinality(Published(r, "engine:error")) = 1
    /\ Published(r, "engine:initialized") = {}
    /\ r.isInitialized = e.isInitialized
    /\ r.awaiting = suspended

\* C16: in every reachable state, an initialize that fails, before or after
\* its await, returns with error set, exactly one 'engine:error' published
\* and isInitialized as it was; an initialize given a container and meeting
\* no failure clears error, and its continuation sets isInitialized,
\* publishes 'engine:initialized' and no error.
C16_InitializeFailureRecovers ==
    LET e == Called(engine)
    IN  /\ \A c \in Containers :
              \A failAt \in InitFailuresWith(c) :
                 FailsEarly(c, failAt)
                    => InitializeFailed(e, InitializeOn(e, c, failAt),
                                        e.awaiting)
        /\ \A failAt \in ResumeFailures :
              FailsLate(failAt)
                 => InitializeFailed(e, InitializeResumeOn(e, failAt),
                                     Tail(e.awaiting))
        /\ LET r == InitializeOn(e, "div", "none")
           IN  /\ r.error = "null"
               /\ r.emitted = <<>>
               /\ r.awaiting = Append(e.awaiting, FALSE)
        /\ (e.awaiting # <<>> /\ ~FailsLate("none"))
              => LET r == InitializeResumeOn(e, "none")
                 IN  /\ r.isInitialized
                     /\ r.error = e.error
                     /\ Published(r, "engine:error") = {}
                     /\ Cardinality(Published(r, "engine:initialized")) = 1

\* an initialize failed while constructing the renderer, and the next one
\* completed
C16_Witness ==
    /\ engine.isInitialized
    /\ engine.error = "null"
    /\ ~engine.disposed
    /\ engine.scene = 2
    /\ engine.canvases = {2}
    /\ Published(engine, "engine:initialized") # {}

\* C17: a dispose in which a step fails records the failure, publishes an
\* error event and still finishes the teardown: all resource references
\* null, isInitialized and isRendering false.
C17_DisposeFailureCompletes ==
    [][\A failAt \in DisposeFailures, calls \in Reactions :
          (engine' = DisposeOn(Called(engine), failAt, calls)
             /\ engine'.error = "dispose")
              => /\ Published(engine', "engine:error") # {}
                 /\ engine'.scene = 0
                 /\ engine'.renderer = 0
                 /\ engine'.camera = 0
                 /\ engine'.controls = 0
                 /\ ~engine'.isInitialized
                 /\ ~engine'.isRendering]_vars

\* C18: stopRenderLoop leaves isRendering false and no stored frame handle;
\* while isRendering is false at most one frame callback is pending; a frame
\* callback that runs while isRendering is false draws nothing, publishes
\* nothing and requests no further frame; stopRenderLoop on the state a
\* stopRenderLoop left changes nothing.
C18_StopEndsLoop ==
    [][/\ (engine' = StopRenderLoopOn(Called(engine)))
             => (~engine'.isRendering /\ engine'.animationId = 0)
       /\ ~engine'.isRendering => Len(engine'.rafQueue) <= 1
       /\ \A throws \in BOOLEAN, calls \in Reactions :
             (~engine.isRendering /\ engine.rafQueue # <<>>
                /\ engine.awaiting = <<>>
                /\ engine' = AnimateOn(Called(engine), throws, calls))
                 => engine' = [Called(engine) EXCEPT !.rafQueue = Tail(@)]
       /\ (~engine.isRendering /\ engine.animationId = 0
             /\ engine' = StopRenderLoopOn(Called(engine)))
             => engine' = Called(engine)
      ]_vars

\* stopRenderLoop returned on a rendering engine and one frame callback is
\* still pending
C18_Witness ==
    /\ engine.isInitialized
    /\ ~engine.isRendering
    /\ engine.animationId = 0
    /\ Len(engine.rafQueue) = 1
    /\ engine.emitted = <<>>

C19_LoopProgresses ==
    /\ []((engine.isRendering /\ engine.isInitialized)
             => engine.rafQueue # <<>>)
    /\ (engine.isRendering /\ engine.isInitialized)
          ~> (~engine.isRendering \/ (engine.looped /\ engine.drew))

\* scene, renderer, camera and controls are all present
HasAllResources(e) ==
    e.scene # 0 /\ e.renderer # 0 /\ e.camera # 0 /\ e.controls # 0

\* C21: in every reachable state render() draws a frame exactly when scene,
\* renderer, camera and controls are all present, and in every other state
\* it draws nothing, publishes nothing and changes no state.
C21_RenderIffAllResources ==
    LET e == Called(engine)
        r == RenderOn(e, FALSE)
    IN  /\ r.drew <=> HasAllResources(e)
        /\ ~HasAllResources(e) =>
              \A throws \in BOOLEAN : RenderOn(e, throws) = e

\* C22: add and remove put the object into / take it out of the scene and
\* publish their event when isInitialized is true, and change nothing and
\* publish nothing when it is false.
C22_AddRemoveOnlyInitialized ==
    LET e == Called(engine)
    IN  \A o \in Objects :
            IF e.isInitialized
            THEN /\ AddOn(e, o).children = e.children \cup {o}
                 /\ Published(AddOn(e, o), "engine:objectAdded") # {}
                 /\ RemoveOn(e, o).children = e.children \ {o}
                 /\ Published(RemoveOn(e, o), "engine:objectRemoved") # {}
            ELSE /\ AddOn(e, o) = e
                 /\ RemoveOn(e, o) = e

C24_DisposeReleasesHelpers ==
    JustDisposed => engine.children = {}

NeverInitialized(e) == e.gen = 0

C27_DisposeNeverInitializedNoOp ==
    LET e == Called(engine)
    IN  NeverInitialized(e) =>
            \A failAt \in DisposeFailures, calls \in Reactions :
                LET r == DisposeOn(e, failAt, calls)
                IN  /\ r.emitted = <<>>
                    /\ [r EXCEPT !.disposed = e.disposed] = e

C29_ScreenshotThrowsIffNoRenderer ==
    LET e == Called(engine)
    IN  \A format \in Formats, quality \in Qualities :
            LET r == ScreenshotOn(e, format, quality)
            IN  /\ r.shot.threw <=> e.renderer = 0
                /\ [r EXCEPT !.shot = NoShot] = e

\* screenshot threw on an engine whose initialize failed before the
\* renderer was created
C29_Witness ==
    /\ engine.shot.threw
    /\ engine.scene # 0
    /\ engine.renderer = 0
    /\ engine.error = "init"

(***************************************************************************)
(* Properties of the camera                                                *)
(***************************************************************************)
\* promise number p was resolved after a step with progress 1 of its own
\* animation that left its camera exactly at the requested position
ResolvedAtTarget(c, p) ==
    /\ c.promises[p].finalStep
    /\ c.promises[p].placedAt = c.promises[p].position

\* C30: the promise animateTo returns resolves only after an animation step
\* with progress 1 has placed the camera exactly at the requested position,
\* in every call: calls made while another animation runs and calls with
\* no camera included.
C30_ResolvesOnlyAtTarget ==
    \A p \in DOMAIN threeCamera.promises :
        threeCamera.promises[p].resolved => ResolvedAtTarget(threeCamera, p)

\* the part of C30 the code does keep: a call that started an animation
\* has its promise resolved only by the step with progress 1
StartedAnimationResolvesAtTarget ==
    \A p \in DOMAIN threeCamera.promises :
        threeCamera.promises[p].resolved /\ threeCamera.promises[p].started
            => ResolvedAtTarget(threeCamera, p)

(***************************************************************************)
(* Properties of the engine: frames, interleavings, event order            *)
(***************************************************************************)
\* the three things a frame does, in the order the loop is to do them
FrameOrder == <<"controls.update", "render", "requestAnimationFrame">>

\* C31: a frame callback that finds isRendering true updates the controls,
\* then calls render, and only then requests the next frame; one that
\* finds isRendering false does none of the three.
C31_FrameOrder ==
    LET e == Called(engine)
    IN  e.rafQueue # <<>> =>
            \A throws \in BOOLEAN : \A calls \in AnimateReactions(throws) :
                LET r == AnimateOn(e, throws, calls)
                IN  r.steps = IF e.isRendering THEN FrameOrder ELSE <<>>

\* the part of C31 the code keeps: with controls present the order holds
FrameOrderWithControls ==
    LET e == Called(engine)
    IN  e.rafQueue # <<>> /\ (e.isRendering => e.controls # 0) =>
            \A throws \in BOOLEAN : \A calls \in AnimateReactions(throws) :
                LET r == AnimateOn(e, throws, calls)
                IN  r.steps = IF e.isRendering THEN FrameOrder ELSE <<>>

(***************************************************************************)
(* Properties of the event bus: counts and dispatch under re-entrancy      *)
(***************************************************************************)
\* C32: for every event name, the empty string included, getListenerCount
\* of that name is the number of subscriptions registered for it, whatever
\* other events have.
C32_CountOfOneEvent ==
    \A event \in Events :
        GetListenerCount(event) = Len(MapGet(listeners, event))

\* the innermost emit has run its forEach to the end and is about to return
EmitReturns ==
    /\ stack # <<>>
    /\ Top.phase = "dispatch"
    /\ Top.idx > Len(Dispatched(Top))

\* C33: when emit(e) returns, the subscriptions of e are those the
\* callbacks of the dispatch left in the registry, less the once
\* subscriptions that fired in it: nothing a callback removed is back and
\* nothing a callback added is gone.
C33_CallbackChangesSurvive ==
    [][EmitReturns =>
          MapGet(listeners', Top.event) =
              SelectSeq(MapGet(listeners, Top.event),
                        LAMBDA l : l.id \notin Top.toRemove)]_vars

\* C34: an emit invokes the subscriptions its event had when it was called,
\* each exactly once: none that a callback added during the dispatch, and
\* also those an earlier callback of the dispatch removed.
C34_InvokesRegisteredOnce ==
    \A i \in DOMAIN stack :
        LET f == stack[i]
        IN  /\ {f.fired[k].id : k \in DOMAIN f.fired} \subseteq f.present
            /\ \A j, k \in DOMAIN f.fired :
                   f.fired[j].id = f.fired[k].id => j = k
            /\ f.phase = "dispatch" /\ f.idx > Len(Dispatched(f))
                   => Len(f.fired) = Cardinality(f.present)

\* a dispatch is invoking a subscription that an earlier callback removed
\* with off (the running callback has made no call yet), while the event has a
\* subscription that was added during the dispatch and is not invoked
C34_Witness ==
    /\ stack # <<>>
    /\ Top.phase = "running"
    /\ Top.calls = 0
    /\ ~Top.fired[Len(Top.fired)].once
    /\ Top.fired[Len(Top.fired)].id \notin Ids(MapGet(listeners, Top.event))
    /\ \E l \in Ids(MapGet(listeners, Top.event)) : l \notin Top.present

(***************************************************************************)
(* Properties of the engine: interleavings and the state events announce   *)
(***************************************************************************)
\* an event published with every one of the four resources in place
CarriesResources(ev) ==
    ev.scene # 0 /\ ev.renderer # 0 /\ ev.camera # 0 /\ ev.controls # 0

\* C35: when dispose has run while an initialize was suspended at its
\* await, the continuation of that initialize leaves isInitialized true
\* only with scene, renderer, camera and controls all present, and
\* publishes no 'engine:initialized' that carries a null resource.
C35_InitializeDisposeInterleaving ==
    engine.awaiting # <<>> /\ Published(engine, "engine:disposed") # {} =>
        \A failAt \in ResumeFailures :
            LET r == InitializeResumeOn(Called(engine), failAt)
            IN  /\ r.isInitialized => HasAllResources(r)
                /\ \A i \in Published(r, "engine:initialized") :
                       CarriesResources(r.emitted[i])

\* C36: at most one frame callback of the render loop is pending at any
\* time, whatever startRenderLoop and stopRenderLoop calls were made, those
\* of an 'engine:render' subscriber during a frame included.
C36_OneFramePending ==
    Len(engine.rafQueue) <= 1

\* C37: a subscriber of 'engine:initialized' finds isInitialized true, and
\* isRendering true when autoRender is on; a subscriber of
\* 'engine:disposed' finds isInitialized and isRendering false and scene,
\* renderer, camera and controls null.
C37_EventsAfterState ==
    \A i \in DOMAIN engine.emitted :
        LET ev == engine.emitted[i]
        IN  /\ ev.name = "engine:initialized" =>
                   /\ ev.isInitialized
                   /\ engine.config.autoRender => ev.isRendering
            /\ ev.name = "engine:disposed" =>
                   /\ ~ev.isInitialized
                   /\ ~ev.isRendering
                   /\ ev.scene = 0 /\ ev.renderer = 0
                   /\ ev.camera = 0 /\ ev.controls = 0

(***************************************************************************)
(* Properties of the camera: termination                                   *)
(***************************************************************************)
\* promise number p exists and has been resolved
PromiseResolved(p) ==
    /\ p \in DOMAIN threeCamera.promises
    /\ threeCamera.promises[p].resolved

\* C38: with the host running animation frames, every promise animateTo
\* has returned is eventually resolved, also when dispose is called while
\* the animation is in progress.
C38_PromiseResolves ==
    \A p \in 1..MaxAnimateCalls :
        (p \in DOMAIN threeCamera.promises)
            ~> PromiseResolved(p)

\* the part of C38 the code keeps: the promise of an animation that no
\* dispose has cancelled is eventually resolved
PromiseResolvesUnlessDisposed ==
    \A p \in 1..MaxAnimateCalls :
        (p \in DOMAIN threeCamera.promises)
            ~> (PromiseResolved(p) \/ threeCamera.cameraRef = 0)

(***************************************************************************)
(* Properties of the controls and of the model loader                      *)
(***************************************************************************)
\* C39: once dispose of the controls composable has completed, no frame
\* callback of its update loop is pending, then or later.
C39_DisposeStopsUpdateLoop ==
    threeControls.disposed => threeControls.rafQueue = <<>>

\* the part of C39 the code keeps: without the automatic update no frame
\* callback is ever pending
NoLoopWithoutAutoUpdate ==
    ~threeControls.autoUpdate => threeControls.rafQueue = <<>>

\* C40: after dispose or clearCache() of the model loader the model cache
\* and the model-info map are empty and stay so until loadModel is called
\* again, also when a load that was in flight completes.
C40_ClearedStaysEmpty ==
    modelLoader.cleared =>
        modelLoader.loadedModels = {} /\ modelLoader.modelInfos = {}

====
